---- MODULE Spec2Model ----
(***************************************************************************)
(* scptdisplay: a command-line wrapper that builds one osascript           *)
(* invocation (display notification / alert / dialog), runs it as a child  *)
(* process, and prints one JSON envelope describing the outcome.           *)
(*                                                                         *)
(* Text is modelled as a sequence of one-character strings, so that        *)
(* quoting, joining, trimming and splitting are computed character by      *)
(* character as the Rust code does.  A byte buffer is a sequence of such   *)
(* characters in which the element BadByte stands for the byte 0xFF, which *)
(* occurs in no valid UTF-8 text.  Option<T> is a sequence of length 0     *)
(* (None) or 1 (Some).                                                     *)
(*                                                                         *)
(* Assumptions about the environment: writing to standard output succeeds  *)
(* (println! does not panic); wait_with_output fails only after both pipes *)
(* were read to their end and the child has terminated (the wait system    *)
(* call fails for a child that is already gone).                           *)
(***************************************************************************)
EXTENDS Integers, Sequences, FiniteSets, TLC

VARIABLES
    pc,          \* position of main()
    args,        \* the parsed Cli (main.rs:16)
    cli_cmd,     \* Option<Cmd>: the argument vector built by args.cmd()
    spawns,      \* number of spawn() calls made so far
    child,       \* the child process as the operating system sees it
    cmd,         \* outcome of spawn()/wait_with_output() held by main
    parsed,      \* TRUE once Commands::parse_stdout decoded the child's stdout
    result,      \* Option<Response>: the envelope main built
    printed,     \* the lines written to standard output
    exit_code,   \* Option<int>: the exit status of this program
    call,        \* pure-function harness: the function applied and its input
    ret          \* pure-function harness: Option<return value>

vars == <<pc, args, cli_cmd, spawns, child, cmd, parsed, result, printed,
          exit_code, call, ret>>

mainVars == <<pc, args, cli_cmd, spawns, child, cmd, parsed, result, printed,
              exit_code>>

(***************************************************************************)
(* Bounds of the model.                                                    *)
(***************************************************************************)
MaxRecordLen == 6
MaxSelectorLen == 4
MaxButtons == 2
MaxFields == 2
MaxListLen == 3

(***************************************************************************)
(* Generic helpers.                                                        *)
(***************************************************************************)
None == <<>>

Some(x) == <<x>>

IsSome(o) == Len(o) = 1

IsNone(o) == Len(o) = 0

Unwrap(o) == o[1]

RECURSIVE StringsUpTo(_, _)
StringsUpTo(alphabet, n) ==
    IF n = 0 THEN {<<>>}
    ELSE LET shorter == StringsUpTo(alphabet, n - 1)
         IN  shorter \cup {Append(s, c) : s \in {t \in shorter : Len(t) = n - 1},
                                          c \in alphabet}

Drop(s, n) == SubSeq(s, n + 1, Len(s))

Take(s, n) == SubSeq(s, 1, n)

(***************************************************************************)
(* String literals of the source, spelled as character sequences.          *)
(***************************************************************************)
S_osascript ==
    <<"o", "s", "a", "s", "c", "r", "i", "p", "t">>

S_dash_e ==
    <<"-", "e">>

S_display_notification ==
    <<"d", "i", "s", "p", "l", "a", "y", " ", "n", "o", "t", "i", "f", "i",
      "c", "a", "t", "i", "o", "n">>

S_display_alert ==
    <<"d", "i", "s", "p", "l", "a", "y", " ", "a", "l", "e", "r", "t">>

S_display_dialog ==
    <<"d", "i", "s", "p", "l", "a", "y", " ", "d", "i", "a", "l", "o", "g">>

S_with_title ==
    <<"w", "i", "t", "h", " ", "t", "i", "t", "l", "e">>

S_subtitle ==
    <<"s", "u", "b", "t", "i", "t", "l", "e">>

S_sound_name ==
    <<"s", "o", "u", "n", "d", " ", "n", "a", "m", "e">>

S_message ==
    <<"m", "e", "s", "s", "a", "g", "e">>

S_as ==
    <<"a", "s">>

S_buttons ==
    <<"b", "u", "t", "t", "o", "n", "s">>

S_default_button ==
    <<"d", "e", "f", "a", "u", "l", "t", " ", "b", "u", "t", "t", "o", "n">>

S_cancel_button ==
    <<"c", "a", "n", "c", "e", "l", " ", "b", "u", "t", "t", "o", "n">>

S_giving_up_after ==
    <<"g", "i", "v", "i", "n", "g", " ", "u", "p", " ", "a", "f", "t", "e",
      "r">>

S_default_answer ==
    <<"d", "e", "f", "a", "u", "l", "t", " ", "a", "n", "s", "w", "e", "r">>

S_hidden_answer ==
    <<"h", "i", "d", "d", "e", "n", " ", "a", "n", "s", "w", "e", "r">>

S_with_icon ==
    <<"w", "i", "t", "h", " ", "i", "c", "o", "n">>

S_informational ==
    <<"i", "n", "f", "o", "r", "m", "a", "t", "i", "o", "n", "a", "l">>

S_warning ==
    <<"w", "a", "r", "n", "i", "n", "g">>

S_critical ==
    <<"c", "r", "i", "t", "i", "c", "a", "l">>

S_text_returned ==
    <<"t", "e", "x", "t", " ", "r", "e", "t", "u", "r", "n", "e", "d">>

S_button_returned ==
    <<"b", "u", "t", "t", "o", "n", " ", "r", "e", "t", "u", "r", "n", "e",
      "d">>

S_gave_up ==
    <<"g", "a", "v", "e", " ", "u", "p">>

S_true ==
    <<"t", "r", "u", "e">>

S_invalid_utf8 ==
    <<"i", "n", "v", "a", "l", "i", "d", " ", "u", "t", "f", "-", "8", " ",
      "s", "e", "q", "u", "e", "n", "c", "e", " ", "o", "f", " ", "1", " ",
      "b", "y", "t", "e", "s", " ", "f", "r", "o", "m", " ", "i", "n", "d",
      "e", "x", " ">>

(***************************************************************************)
(* Rust str primitives used by src/parse.rs.                               *)
(***************************************************************************)
\* char::is_whitespace, restricted to the characters the model draws from.
IsWhitespace(c) == c \in {" ", "\t", "\n", "\r"}

\* str::trim_end: drop the trailing run of whitespace.
RECURSIVE trim_end(_)
trim_end(s) ==
    IF s # <<>> /\ IsWhitespace(s[Len(s)]) THEN trim_end(Take(s, Len(s) - 1))
    ELSE s

\* str::trim_start: drop the leading run of whitespace.
RECURSIVE trim_start(_)
trim_start(s) ==
    IF s # <<>> /\ IsWhitespace(s[1]) THEN trim_start(Drop(s, 1))
    ELSE s

\* str::find(char): index of the first occurrence, 0 when there is none.
RECURSIVE find_from(_, _, _)
find_from(s, c, i) ==
    IF i > Len(s) THEN 0
    ELSE IF s[i] = c THEN i
    ELSE find_from(s, c, i + 1)

find(s, c) == find_from(s, c, 1)

\* str::split(char).collect(): the pieces between the separators; the
\* empty text yields one empty piece.
RECURSIVE split(_, _)
split(s, c) ==
    LET i == find(s, c)
    IN  IF i = 0 THEN <<s>>
        ELSE <<Take(s, i - 1)>> \o split(Drop(s, i), c)

\* str::split_once(char): Some((before, after)) at the first occurrence.
split_once(s, c) ==
    LET i == find(s, c)
    IN  IF i = 0 THEN None
        ELSE Some(<<Take(s, i - 1), Drop(s, i)>>)

\* HashMap::insert: the new value replaces an earlier one under the key.
insert(m, k, v) ==
    [x \in (DOMAIN m) \cup {k} |-> IF x = k THEN v ELSE m[x]]

StringMap_new == [x \in {} |-> <<>>]

\* HashMap::get(key).cloned()
get(m, k) == IF k \in DOMAIN m THEN Some(m[k]) ELSE None

(***************************************************************************)
(* src/parse.rs: Output::record                                            *)
(***************************************************************************)
\* The body of `for x in xs` applied to the pieces from index i on.
RECURSIVE record_loop(_, _, _)
record_loop(xs, i, m) ==
    IF i > Len(xs) THEN m
    ELSE LET kv == split_once(xs[i], ":")
         IN  IF IsSome(kv)
             THEN LET k == trim_start(Unwrap(kv)[1])
                      v == Unwrap(kv)[2]
                  IN  record_loop(xs, i + 1, insert(m, k, v))
             ELSE record_loop(xs, i + 1, m)

\* A faulty record: of several pieces with one key the first one wins.
record_first_wins(x) ==
    LET xs == split(trim_end(x), ",")
        rev == [i \in 1..Len(xs) |-> xs[Len(xs) + 1 - i]]
    IN  record_loop(rev, 1, StringMap_new)

record(x) ==
    LET xs == split(trim_end(x), ",")
    IN  record_loop(xs, 1, StringMap_new)

(***************************************************************************)
(* src/parse.rs: Input                                                     *)
(***************************************************************************)
quoted(x) == <<"\"">> \o x \o <<"\"">>

Digits == {"0", "1", "2", "3", "4", "5", "6", "7", "8", "9"}

DigitValue(c) ==
    CASE c = "0" -> 0 [] c = "1" -> 1 [] c = "2" -> 2 [] c = "3" -> 3
      [] c = "4" -> 4 [] c = "5" -> 5 [] c = "6" -> 6 [] c = "7" -> 7
      [] c = "8" -> 8 [] c = "9" -> 9

U8_MAX == 255

\* The digit loop of <u8 as FromStr>::from_str: checked_mul(10) then
\* checked_add(digit); Some(value), or None on a non-digit or on overflow.
RECURSIVE parse_digits(_, _, _)
parse_digits(s, i, acc) ==
    IF i > Len(s) THEN Some(acc)
    ELSE IF s[i] \notin Digits THEN None
    ELSE IF acc * 10 > U8_MAX THEN None
    ELSE IF acc * 10 + DigitValue(s[i]) > U8_MAX THEN None
    ELSE parse_digits(s, i + 1, acc * 10 + DigitValue(s[i]))

\* x.parse::<u8>(): the empty text is an error; a lone sign is an error;
\* one leading '+' is accepted and '-' is not (the type is unsigned).
\* A faulty parse: a leading '-' is skipped like a leading '+'.
parse_u8_signed(x) ==
    IF x = <<>> THEN None
    ELSE IF Len(x) = 1 /\ x[1] \in {"+", "-"} THEN None
    ELSE IF x[1] \in {"+", "-"} THEN parse_digits(Drop(x, 1), 1, 0)
    ELSE parse_digits(x, 1, 0)

parse_u8(x) ==
    IF x = <<>> THEN None
    ELSE IF Len(x) = 1 /\ x[1] \in {"+", "-"} THEN None
    ELSE IF x[1] = "+" THEN parse_digits(Drop(x, 1), 1, 0)
    ELSE parse_digits(x, 1, 0)

integer_or_text(x) ==
    IF IsSome(parse_u8(x)) THEN x ELSE quoted(x)

\* The reduce of apple_script_list: acc + "," + x over the quoted labels.
\* A faulty reduce: the labels are joined by a comma and a space.
RECURSIVE join_quoted_spaced(_, _, _)
join_quoted_spaced(v, i, acc) ==
    IF i > Len(v) THEN acc
    ELSE join_quoted_spaced(v, i + 1, acc \o <<",", " ">> \o quoted(v[i]))

RECURSIVE join_quoted(_, _, _)
join_quoted(v, i, acc) ==
    IF i > Len(v) THEN acc
    ELSE join_quoted(v, i + 1, acc \o <<",">> \o quoted(v[i]))

apple_script_list(v) ==
    IF v = <<>> THEN <<"{", "}">>
    ELSE <<"{">> \o join_quoted(v, 2, quoted(v[1])) \o <<"}">>


\* format!("{}", x) for x: u8: the plain decimal digits.
DigitChar(d) ==
    CASE d = 0 -> "0" [] d = 1 -> "1" [] d = 2 -> "2" [] d = 3 -> "3"
      [] d = 4 -> "4" [] d = 5 -> "5" [] d = 6 -> "6" [] d = 7 -> "7"
      [] d = 8 -> "8" [] d = 9 -> "9"

RECURSIVE to_decimal(_)
to_decimal(n) ==
    IF n < 10 THEN <<DigitChar(n)>>
    ELSE Append(to_decimal(n \div 10), DigitChar(n % 10))

\* Option::map with each of the three conversions the builder passes to it.
map_quoted(o) == IF IsSome(o) THEN Some(quoted(Unwrap(o))) ELSE None

map_integer_or_text(o) ==
    IF IsSome(o) THEN Some(integer_or_text(Unwrap(o))) ELSE None

map_format(o) == IF IsSome(o) THEN Some(to_decimal(Unwrap(o))) ELSE None

(***************************************************************************)
(* src/cmd.rs: Cmd                                                         *)
(***************************************************************************)
Cmd_new(program) == <<program>>

\* Cmd::arg: push the argument when it is Some.
Cmd_arg(c, arg) == IF IsSome(arg) THEN Append(c, Unwrap(arg)) ELSE c

\* A faulty pair: the key is pushed also when the value is None.
Cmd_pair_key_only(c, key, value) ==
    IF IsSome(value) THEN c \o <<key, Unwrap(value)>> ELSE Append(c, key)

\* Cmd::pair: push key and value when the value is Some.
Cmd_pair(c, key, value) ==
    IF IsSome(value) THEN c \o <<key, Unwrap(value)>> ELSE c

\* impl From<Cmd> for String: reduce(|acc, x| format!("{} {}", acc, x)).
RECURSIVE reduce_space(_, _, _)
reduce_space(v, i, acc) ==
    IF i > Len(v) THEN acc
    ELSE reduce_space(v, i + 1, acc \o <<" ">> \o v[i])

String_from_Cmd(c) == reduce_space(c, 2, c[1])

(***************************************************************************)
(* src/cli.rs: Commands::cmd and Cli::cmd                                  *)
(***************************************************************************)
Commands_cmd_Notification(n) ==
    LET c0 == Cmd_new(S_display_notification)
        c1 == Cmd_arg(c0, Some(quoted(n.text)))
        c2 == Cmd_pair(c1, S_with_title, map_quoted(n.title))
        c3 == Cmd_pair(c2, S_subtitle, map_quoted(n.subtitle))
        c4 == Cmd_pair(c3, S_sound_name, map_quoted(n.sound_name))
    IN  c4

Commands_cmd_Alert(a) ==
    LET c0 == Cmd_new(S_display_alert)
        c1 == Cmd_arg(c0, Some(quoted(a.text)))
        c2 == Cmd_pair(c1, S_message, map_quoted(a.message))
        c3 == Cmd_pair(c2, S_as, a.alert_type)
        c4 == IF a.buttons # <<>>
              THEN Cmd_pair(c3, S_buttons, Some(apple_script_list(a.buttons)))
              ELSE c3
        c5 == Cmd_pair(c4, S_default_button, map_integer_or_text(a.default_button))
        c6 == Cmd_pair(c5, S_cancel_button, map_integer_or_text(a.cancel_button))
        c7 == Cmd_pair(c6, S_giving_up_after, map_format(a.giving_up_after))
    IN  c7

Commands_cmd_Dialog(d) ==
    LET c0 == Cmd_new(S_display_dialog)
        c1 == Cmd_arg(c0, Some(quoted(d.text)))
        c2 == Cmd_pair(c1, S_default_answer, map_quoted(d.default_answer))
        c3 == Cmd_arg(c2, IF d.hidden_answer THEN Some(S_hidden_answer) ELSE None)
        c4 == IF d.buttons # <<>>
              THEN Cmd_pair(c3, S_buttons, Some(apple_script_list(d.buttons)))
              ELSE c3
        c5 == Cmd_pair(c4, S_default_button, map_integer_or_text(d.default_button))
        c6 == Cmd_pair(c5, S_cancel_button, map_integer_or_text(d.cancel_button))
        c7 == Cmd_pair(c6, S_with_title, map_quoted(d.title))
        c8 == Cmd_pair(c7, S_with_icon, map_integer_or_text(d.icon))
        c9 == Cmd_pair(c8, S_giving_up_after, map_format(d.giving_up_after))
    IN  c9

Commands_cmd(command) ==
    CASE command.tag = "Notification" -> Commands_cmd_Notification(command)
      [] command.tag = "Alert" -> Commands_cmd_Alert(command)
      [] command.tag = "Dialog" -> Commands_cmd_Dialog(command)

Cli_cmd(cli) ==
    LET c == Cmd_new(cli.osascript)
        a == Commands_cmd(cli.command)
    IN  Cmd_pair(c, S_dash_e, Some(String_from_Cmd(a)))

(***************************************************************************)
(* Result<T, E>, and String::from_utf8 on the modelled bytes.              *)
(***************************************************************************)
Ok(x) == [ok |-> TRUE, val |-> x]

Err(e) == [ok |-> FALSE, val |-> e]

BadByte == "0xFF"

\* String::from_utf8: the text itself, or the error whose Display names the
\* index of the first byte that is not valid (an anyhow Error made from it
\* displays the same text).
String_from_utf8(v) ==
    LET i == find(v, BadByte)
    IN  IF i = 0 THEN Ok(v)
        ELSE Err(S_invalid_utf8 \o to_decimal(i - 1))

(***************************************************************************)
(* src/response.rs: Data, Response and their conversions                   *)
(***************************************************************************)
Data_Notification == [tag |-> "Notification"]

Data_Dialog(raw, r, text, button, gave_up) ==
    [tag |-> "Dialog", raw |-> raw, record |-> r, text |-> text,
     button |-> button, gave_up |-> gave_up]

Data_Alert(raw, r, button, gave_up) ==
    [tag |-> "Alert", raw |-> raw, record |-> r, button |-> button,
     gave_up |-> gave_up]

\* A faulty from_err_with_code: the exit code is not carried over.
Response_from_err_with_code_drops_code(from, code) ==
    [result |-> "Err", code |-> None, error |-> Some(from), data |-> None]

\* Response::from_err_with_code
Response_from_err_with_code(from, code) ==
    [result |-> "Err", code |-> code, error |-> Some(from), data |-> None]

\* A faulty From<Error>: the error envelope also carries a payload.
Response_from_Error_keeps_data(from) ==
    [result |-> "Err", code |-> None, error |-> Some(from),
     data |-> Some(Data_Notification)]

\* A faulty From<Error>: the error envelope reports exit status 0.
Response_from_Error_code_zero(from) ==
    [result |-> "Err", code |-> Some(0), error |-> Some(from), data |-> None]

\* impl From<Error> for Response
Response_from_Error(from) ==
    [result |-> "Err", code |-> None, error |-> Some(from), data |-> None]

\* impl From<Data> for Response
Response_from_Data(from) ==
    [result |-> "Ok", code |-> Some(0), error |-> None, data |-> Some(from)]

\* impl From<Result<Data>> for Response
Response_from_Result(from) ==
    IF from.ok THEN Response_from_Data(from.val)
    ELSE Response_from_Error(from.val)

\* #[derive(Serialize)] with the serde renames: the JSON document's fields.
serialize_Code(c) == IF c = "Ok" THEN "ok" ELSE "error"

serialize_Data(d) ==
    CASE d.tag = "Notification" -> [variant |-> "notification"]
      [] d.tag = "Dialog" ->
           [variant |-> "dialog", raw |-> d.raw, record |-> d.record,
            text |-> d.text, button |-> d.button, gave_up |-> d.gave_up]
      [] d.tag = "Alert" ->
           [variant |-> "alert", raw |-> d.raw, record |-> d.record,
            button |-> d.button, gave_up |-> d.gave_up]

to_string(r) ==
    [result |-> serialize_Code(r.result), code |-> r.code, error |-> r.error,
     data |-> IF IsSome(r.data) THEN Some(serialize_Data(Unwrap(r.data)))
              ELSE None]

(***************************************************************************)
(* src/cli.rs: Commands::parse_stdout                                      *)
(***************************************************************************)
\* A faulty gave_up: true whenever the key is present.
gave_up_of_any_value(r) == IsSome(get(r, S_gave_up))

\* match r.get("gave up") { None => false, Some(x) => x == "true" }
gave_up_of(r) ==
    LET g == get(r, S_gave_up)
    IN  IF IsNone(g) THEN FALSE ELSE Unwrap(g) = S_true

\* A faulty Dialog arm: undecodable bytes are dropped instead of reported.
parse_stdout_Dialog_lossy(output) ==
    LET x == SelectSeq(output, LAMBDA b : b # BadByte)
        r == record(x)
    IN  Ok(Data_Dialog(x, r, get(r, S_text_returned),
                       get(r, S_button_returned), FALSE))

parse_stdout_Dialog(output) ==
    LET s == String_from_utf8(output)
    IN  IF ~s.ok THEN Err(s.val)
        ELSE LET x == s.val
                 r == record(x)
                 text == get(r, S_text_returned)
                 button == get(r, S_button_returned)
                 gave_up == gave_up_of(r)
             IN  Ok(Data_Dialog(x, r, text, button, gave_up))

parse_stdout_Alert(output) ==
    LET s == String_from_utf8(output)
    IN  IF ~s.ok THEN Err(s.val)
        ELSE LET x == s.val
                 r == record(x)
                 button == get(r, S_button_returned)
                 gave_up == gave_up_of(r)
             IN  Ok(Data_Alert(x, r, button, gave_up))

parse_stdout(command, output) ==
    CASE command.tag = "Notification" -> Ok(Data_Notification)
      [] command.tag = "Dialog" -> parse_stdout_Dialog(output)
      [] command.tag = "Alert" -> parse_stdout_Alert(output)

\* Whether parse_stdout hands the bytes to String::from_utf8.
decodes_stdout(command) == command.tag \in {"Dialog", "Alert"}

(***************************************************************************)
(* Inputs of main(): the parsed command line, and what the child and the   *)
(* operating system may do.                                                *)
(***************************************************************************)
Commands_Notification(text, title, subtitle, sound_name) ==
    [tag |-> "Notification", text |-> text, title |-> title,
     subtitle |-> subtitle, sound_name |-> sound_name]

Commands_Alert(text, message, alert_type, buttons, default_button, cancel_button, giving_up_after) ==
    [tag |-> "Alert", text |-> text, message |-> message,
     alert_type |-> alert_type, buttons |-> buttons,
     default_button |-> default_button, cancel_button |-> cancel_button,
     giving_up_after |-> giving_up_after]

Commands_Dialog(text, default_answer, hidden_answer, buttons, default_button, cancel_button, title, icon, giving_up_after) ==
    [tag |-> "Dialog", text |-> text, default_answer |-> default_answer,
     hidden_answer |-> hidden_answer, buttons |-> buttons,
     default_button |-> default_button, cancel_button |-> cancel_button,
     title |-> title, icon |-> icon, giving_up_after |-> giving_up_after]

Cli(osascript, command) == [osascript |-> osascript, command |-> command]

\* The command lines main() is run with: each variant with its body text
\* only (alert_type carries clap's default value).
MainClis ==
    {Cli(S_osascript, Commands_Notification(<<"h", "i">>, None, None, None)),
     Cli(S_osascript, Commands_Alert(<<"h", "i">>, None, Some(S_informational),
                                     <<>>, None, None, None)),
     Cli(S_osascript, Commands_Dialog(<<"h", "i">>, None, FALSE, <<>>, None,
                                      None, None, None, None))}

\* Bytes the child may write to its standard output and standard error.
StdoutBytes == {"k", ":", BadByte}

StderrBytes == {"e", BadByte}

MaxStdout == 2

MaxStderr == 1

\* ExitStatus: the exit code of a child that exited, or the signal that
\* terminated it.
Exited(n) == [code |-> Some(n), signal |-> None]

Signaled(sig) == [code |-> None, signal |-> Some(sig)]

ExitCodes == {0, 1, 255}

Signals == {9}

\* ExitStatus::success and ExitStatus::code
success(status) == status.code = Some(0)

code(status) == status.code

\* Display texts of the io::Error a failed spawn or wait carries.
SpawnErrors == {<<"E", "N", "O", "E", "N", "T">>}

WaitErrors == {<<"E", "C", "H", "I", "L", "D">>}

NoChild == [state |-> "none", stdout |-> <<>>, stderr |-> <<>>, status |-> None]

NoCall == [fn |-> "main", arg |-> <<>>]

(***************************************************************************)
(* src/main.rs: main, one action per step                                  *)
(***************************************************************************)
Init ==
    /\ pc = "cmd"
    /\ args \in MainClis
    /\ cli_cmd = None
    /\ spawns = 0
    /\ child = NoChild
    /\ cmd = [stage |-> "none", res |-> Err(<<>>)]
    /\ parsed = FALSE
    /\ result = None
    /\ printed = <<>>
    /\ exit_code = None
    /\ call = NoCall
    /\ ret = None

\* main.rs:17  let cli_cmd = args.cmd();
MainCmd ==
    /\ pc = "cmd"
    /\ cli_cmd' = Some(Cli_cmd(args))
    /\ pc' = "spawn"
    /\ UNCHANGED <<args, spawns, child, cmd, parsed, result, printed,
                   exit_code, call, ret>>

\* main.rs:22-28  spawn() succeeds: the child runs with piped output.
MainSpawnOk ==
    /\ pc = "spawn"
    /\ spawns' = spawns + 1
    /\ child' = [NoChild EXCEPT !.state = "running"]
    /\ cmd' = [stage |-> "spawn", res |-> Ok("child")]
    /\ pc' = "wait"
    /\ UNCHANGED <<args, cli_cmd, parsed, result, printed, exit_code, call, ret>>

\* main.rs:22-28  spawn() fails: no child exists.
MainSpawnErr ==
    /\ pc = "spawn"
    /\ \E e \in SpawnErrors :
         cmd' = [stage |-> "spawn", res |-> Err(e)]
    /\ spawns' = spawns + 1
    /\ pc' = "match"
    /\ UNCHANGED <<args, cli_cmd, child, parsed, result, printed, exit_code,
                   call, ret>>

\* The child writes one byte to its standard output pipe.
ChildWriteStdout ==
    /\ child.state = "running"
    /\ Len(child.stdout) < MaxStdout
    /\ \E b \in StdoutBytes :
         child' = [child EXCEPT !.stdout = Append(@, b)]
    /\ UNCHANGED <<pc, args, cli_cmd, spawns, cmd, parsed, result, printed,
                   exit_code, call, ret>>

\* The child writes one byte to its standard error pipe.
ChildWriteStderr ==
    /\ child.state = "running"
    /\ Len(child.stderr) < MaxStderr
    /\ \E b \in StderrBytes :
         child' = [child EXCEPT !.stderr = Append(@, b)]
    /\ UNCHANGED <<pc, args, cli_cmd, spawns, cmd, parsed, result, printed,
                   exit_code, call, ret>>

\* The child exits with a code, closing its pipes.
ChildExit ==
    /\ child.state = "running"
    /\ \E n \in ExitCodes :
         child' = [child EXCEPT !.state = "exited", !.status = Some(Exited(n))]
    /\ UNCHANGED <<pc, args, cli_cmd, spawns, cmd, parsed, result, printed,
                   exit_code, call, ret>>

\* The child is terminated by a signal, closing its pipes.
ChildKilled ==
    /\ child.state = "running"
    /\ \E sig \in Signals :
         child' = [child EXCEPT !.state = "exited",
                                !.status = Some(Signaled(sig))]
    /\ UNCHANGED <<pc, args, cli_cmd, spawns, cmd, parsed, result, printed,
                   exit_code, call, ret>>

\* main.rs:32  wait_with_output() returns Ok: it has read both pipes to
\* their end and collected the exit status of the child.
MainWaitOk ==
    /\ pc = "wait"
    /\ child.state = "exited"
    /\ cmd' = [stage |-> "wait",
               res |-> Ok([status |-> Unwrap(child.status),
                           stdout |-> child.stdout,
                           stderr |-> child.stderr])]
    /\ child' = [child EXCEPT !.state = "reaped"]
    /\ pc' = "match"
    /\ UNCHANGED <<args, cli_cmd, spawns, parsed, result, printed, exit_code,
                   call, ret>>

\* main.rs:32  wait_with_output() returns Err: both pipes were read to their
\* end, but the exit status of the terminated child could not be collected.
MainWaitErr ==
    /\ pc = "wait"
    /\ child.state = "exited"
    /\ \E e \in WaitErrors :
         cmd' = [stage |-> "wait", res |-> Err(e)]
    /\ child' = [child EXCEPT !.state = "reaped"]
    /\ pc' = "match"
    /\ UNCHANGED <<args, cli_cmd, spawns, parsed, result, printed, exit_code,
                   call, ret>>

\* main.rs:31  Err(err) => Error::new(err).into()
MainMatchSpawnErr ==
    /\ pc = "match"
    /\ cmd.stage = "spawn"
    /\ ~cmd.res.ok
    /\ result' = Some(Response_from_Error(cmd.res.val))
    /\ pc' = "println"
    /\ UNCHANGED <<args, cli_cmd, spawns, child, cmd, parsed, printed,
                   exit_code, call, ret>>

\* main.rs:33  Err(err) => Error::new(err).into()
MainMatchWaitErr ==
    /\ pc = "match"
    /\ cmd.stage = "wait"
    /\ ~cmd.res.ok
    /\ result' = Some(Response_from_Error(cmd.res.val))
    /\ pc' = "println"
    /\ UNCHANGED <<args, cli_cmd, spawns, child, cmd, parsed, printed,
                   exit_code, call, ret>>

\* main.rs:35-36  the child succeeded: the envelope of parse_stdout.
MainMatchSuccess ==
    /\ pc = "match"
    /\ cmd.stage = "wait"
    /\ cmd.res.ok
    /\ success(cmd.res.val.status)
    /\ result' = Some(Response_from_Result(
                          parse_stdout(args.command, cmd.res.val.stdout)))
    /\ parsed' = decodes_stdout(args.command)
    /\ pc' = "println"
    /\ UNCHANGED <<args, cli_cmd, spawns, child, cmd, printed, exit_code,
                   call, ret>>

\* main.rs:37-43  the child failed: an error envelope from its stderr.
MainMatchFailure ==
    /\ pc = "match"
    /\ cmd.stage = "wait"
    /\ cmd.res.ok
    /\ ~success(cmd.res.val.status)
    /\ LET c == code(cmd.res.val.status)
           s == String_from_utf8(cmd.res.val.stderr)
       IN  IF s.ok
           THEN result' = Some(Response_from_err_with_code(s.val, c))
           ELSE result' = Some(Response_from_err_with_code(s.val, c))
    /\ pc' = "println"
    /\ UNCHANGED <<args, cli_cmd, spawns, child, cmd, parsed, printed,
                   exit_code, call, ret>>

\* A faulty println: the envelope is written twice.
MainPrintln_twice ==
    /\ pc = "println"
    /\ printed' = printed \o <<to_string(Unwrap(result)),
                               to_string(Unwrap(result))>>
    /\ pc' = "return"
    /\ UNCHANGED <<args, cli_cmd, spawns, child, cmd, parsed, result,
                   exit_code, call, ret>>

\* main.rs:48  println!("{}", serde_json::to_string(&result).unwrap());
MainPrintln ==
    /\ pc = "println"
    /\ printed' = Append(printed, to_string(Unwrap(result)))
    /\ pc' = "return"
    /\ UNCHANGED <<args, cli_cmd, spawns, child, cmd, parsed, result,
                   exit_code, call, ret>>

\* main.rs:49  main returns (): the process exits with status 0.
MainReturn ==
    /\ pc = "return"
    /\ exit_code' = Some(0)
    /\ pc' = "done"
    /\ UNCHANGED <<args, cli_cmd, spawns, child, cmd, parsed, result, printed,
                   call, ret>>

Next ==
    \/ MainCmd
    \/ MainSpawnOk
    \/ MainSpawnErr
    \/ ChildWriteStdout
    \/ ChildWriteStderr
    \/ ChildExit
    \/ ChildKilled
    \/ MainWaitOk
    \/ MainWaitErr
    \/ MainMatchSpawnErr
    \/ MainMatchWaitErr
    \/ MainMatchSuccess
    \/ MainMatchFailure
    \/ MainPrintln
    \/ MainReturn

Spec == Init /\ [][Next]_vars

\* main() is sequential code: each of its own steps is taken once it can be.
\* Nothing obliges the child to exit.
MainStep ==
    \/ MainCmd
    \/ MainSpawnOk
    \/ MainSpawnErr
    \/ MainWaitOk
    \/ MainWaitErr
    \/ MainMatchSpawnErr
    \/ MainMatchWaitErr
    \/ MainMatchSuccess
    \/ MainMatchFailure
    \/ MainPrintln
    \/ MainReturn

FairSpec == Init /\ [][Next]_vars /\ WF_vars(MainStep)

(***************************************************************************)
(* Properties of a run of main().                                          *)
(***************************************************************************)
\* The envelope main printed, and the child's outcome as the operating
\* system knows it.
Envelope == printed[1]

HasPrinted == Len(printed) = 1

WaitReturnedOk == cmd.stage = "wait" /\ cmd.res.ok

ChildExitedZero ==
    /\ WaitReturnedOk
    /\ IsSome(child.status)
    /\ Unwrap(child.status) = Exited(0)

ChildFailed ==
    /\ WaitReturnedOk
    /\ IsSome(child.status)
    /\ Unwrap(child.status) # Exited(0)

ValidText(bytes) == \A i \in 1..Len(bytes) : bytes[i] # BadByte

IsErrorEnvelope(e) ==
    e.result = "error" /\ IsNone(e.data) /\ IsSome(e.error)

IsOkEnvelope(e) ==
    e.result = "ok" /\ IsSome(e.data) /\ IsNone(e.error)

\* C1: the program's own exit code is 0 when the child was spawned, exited
\* successfully and its output was decodable, and 1 in every other case
\* (spawn failure, non-zero child exit, output decode failure).
C1_ExitCode ==
    pc = "done" =>
        exit_code = Some(IF ChildExitedZero /\ ValidText(child.stdout)
                         THEN 0 ELSE 1)

\* C2: every Response main constructs, on any path, has either result Ok
\* with data present and error absent, or result Err with data absent and
\* error present; never both, never neither.
C2_ExactlyOne ==
    IsSome(result) =>
        LET r == Unwrap(result)
        IN  \/ r.result = "Ok" /\ IsSome(r.data) /\ IsNone(r.error)
            \/ r.result = "Err" /\ IsNone(r.data) /\ IsSome(r.error)

C2_Witness ==
    /\ pc = "done"
    /\ ChildExitedZero
    /\ ~ValidText(child.stdout)
    /\ args.command.tag = "Alert"
    /\ Unwrap(result).result = "Err"

\* What holds at every moment of a run: at most one spawn, at most one
\* printed envelope, printed only once the spawn has failed or the child has
\* terminated and wait_with_output has drained its pipes.
C3_Safety ==
    /\ spawns <= 1
    /\ Len(printed) <= 1
    /\ HasPrinted =>
         /\ spawns = 1
         /\ \/ cmd.stage = "spawn" /\ ~cmd.res.ok /\ child.state = "none"
            \/ cmd.stage = "wait" /\ child.state = "reaped"
    /\ pc = "done" => HasPrinted

\* C3: in every run, whatever the outcome, the child is spawned at most once
\* (no retry), exactly one envelope is printed, it is printed only after the
\* spawn failed or the child exited with its output collected, and the
\* program then terminates.
C3_OneEnvelope ==
    /\ []C3_Safety
    /\ [](pc = "match" => <>(pc = "done" /\ HasPrinted))

C3_Witness ==
    /\ pc = "done"
    /\ HasPrinted
    /\ cmd.stage = "wait"
    /\ ~cmd.res.ok
    /\ child.stdout # <<>>

\* C4 as stated: for each of the three variants, a child that exits with
\* zero status and undecodable standard output yields an error envelope.
C4_DecodeFailureIsError ==
    (HasPrinted /\ ChildExitedZero /\ ~ValidText(child.stdout)) =>
        IsErrorEnvelope(Envelope)

\* C4 amended: for Dialog and Alert, zero exit status with undecodable
\* standard output yields an error envelope, and a dialog or alert payload
\* is built only from standard output that decoded; for Notification
\* standard output is never decoded and the envelope is the success envelope
\* with the empty notification payload.
C4_DecodeFailure_DialogAlert ==
    (HasPrinted /\ ChildExitedZero) =>
        /\ (args.command.tag \in {"Dialog", "Alert"}
              /\ ~ValidText(child.stdout)) =>
             /\ IsErrorEnvelope(Envelope)
             /\ Envelope.code = None
        /\ (IsSome(Envelope.data)
              /\ Unwrap(Envelope.data).variant \in {"dialog", "alert"}) =>
             /\ ValidText(child.stdout)
             /\ Unwrap(Envelope.data).raw = child.stdout
        /\ args.command.tag = "Notification" =>
             /\ IsOkEnvelope(Envelope)
             /\ Unwrap(Envelope.data) = [variant |-> "notification"]
             /\ ~parsed

C4_Witness ==
    /\ HasPrinted
    /\ ChildExitedZero
    /\ ~ValidText(child.stdout)
    /\ args.command.tag = "Dialog"
    /\ IsErrorEnvelope(Envelope)

\* C5: when the child exits with non-zero status (or is killed), for every
\* variant and whatever its standard output, the envelope has result error,
\* no data, the child's exit code as code (null when a signal killed it),
\* and the standard-error text as error, or the decode failure's message
\* when standard error is not valid text; standard output is never parsed.
C5_ChildFailure ==
    (HasPrinted /\ ChildFailed) =>
        LET status == Unwrap(child.status)
        IN  /\ Envelope.result = "error"
            /\ IsNone(Envelope.data)
            /\ Envelope.code = IF IsSome(status.signal) THEN None
                               ELSE status.code
            /\ IF ValidText(child.stderr)
               THEN Envelope.error = Some(child.stderr)
               ELSE /\ ~String_from_utf8(child.stderr).ok
                    /\ Envelope.error = Some(String_from_utf8(child.stderr).val)
            /\ ~parsed

C5_Witness ==
    /\ pc = "done"
    /\ ChildFailed
    /\ Unwrap(child.status) = Exited(1)
    /\ child.stderr = <<"e">>
    /\ child.stdout = <<"k", ":">>
    /\ args.command.tag = "Dialog"
    /\ Envelope.code = Some(1)

\* C6: whenever the child was spawned and terminated with an exit status N
\* that main collected, the printed envelope has code N, on success and on
\* every error path alike.
C6_CodeIsExitStatus ==
    (HasPrinted /\ WaitReturnedOk /\ IsNone(Unwrap(child.status).signal)) =>
        Envelope.code = Unwrap(child.status).code

(***************************************************************************)
(* Output::record applied to every text over RecordChars of at most        *)
(* MaxRecordLen characters.                                                *)
(***************************************************************************)
RecordChars == {"k", " ", "\n", ",", ":"}

\* main() is not running: its state stays as it is.
MainIdle ==
    /\ pc = "idle"
    /\ args = <<>>
    /\ cli_cmd = None
    /\ spawns = 0
    /\ child = NoChild
    /\ cmd = [stage |-> "none", res |-> Err(<<>>)]
    /\ parsed = FALSE
    /\ result = None
    /\ printed = <<>>
    /\ exit_code = None

InitRecord ==
    /\ MainIdle
    /\ call \in {[fn |-> "Output::record", arg |-> x] :
                    x \in StringsUpTo(RecordChars, MaxRecordLen)}
    /\ ret = None

\* parse.rs:42  pub fn record(x: &str) -> StringMap
CallRecord ==
    /\ call.fn = "Output::record"
    /\ ret = None
    /\ ret' = Some(record(call.arg))
    /\ UNCHANGED <<mainVars, call>>

NextRecord == CallRecord

SpecRecord == InitRecord /\ [][NextRecord]_vars

\* The text without its trailing whitespace: the prefix ending at the last
\* character that is not whitespace.
Trimmed(x) ==
    LET solid == {i \in 1..Len(x) : ~IsWhitespace(x[i])}
        n == IF solid = {} THEN 0
             ELSE CHOOSE i \in solid : \A j \in solid : j <= i
    IN  SubSeq(x, 1, n)

\* The pieces between the commas of t, each named by the index it starts at.
PieceStarts(t) == {1} \cup {i + 1 : i \in {j \in 1..Len(t) : t[j] = ","}}

PieceAt(t, a) ==
    LET commas == {j \in a..Len(t) : t[j] = ","}
        b == IF commas = {} THEN Len(t)
             ELSE (CHOOSE j \in commas : \A l \in commas : j <= l) - 1
    IN  SubSeq(t, a, b)

HasColon(p) == \E i \in 1..Len(p) : p[i] = ":"

FirstColon(p) ==
    CHOOSE i \in 1..Len(p) : p[i] = ":" /\ \A j \in 1..(i - 1) : p[j] # ":"

\* The key of a piece: what precedes its first colon, from the first
\* character that is not whitespace on.
KeyOf(p) ==
    LET left == SubSeq(p, 1, FirstColon(p) - 1)
        solid == {i \in 1..Len(left) : ~IsWhitespace(left[i])}
        f == IF solid = {} THEN Len(left) + 1
             ELSE CHOOSE i \in solid : \A j \in solid : i <= j
    IN  SubSeq(left, f, Len(left))

\* The value of a piece: everything after its first colon, unchanged.
ValueOf(p) == SubSeq(p, FirstColon(p) + 1, Len(p))

\* C7: Output::record returns the mapping of the pieces of the text without
\* its trailing whitespace, split at every ',', that contain a ':'; each is
\* split at its first ':' into a key (leading whitespace removed) and a
\* value (unchanged); of several pieces with one key the last one's value is
\* kept; the empty text yields the empty mapping.
C7_Record ==
    IsSome(ret) =>
        LET m == Unwrap(ret)
            t == Trimmed(call.arg)
            keyed == {a \in PieceStarts(t) : HasColon(PieceAt(t, a))}
        IN  /\ DOMAIN m = {KeyOf(PieceAt(t, a)) : a \in keyed}
            /\ \A k \in DOMAIN m :
                 LET same == {a \in keyed : KeyOf(PieceAt(t, a)) = k}
                     last == CHOOSE a \in same : \A b \in same : b <= a
                 IN  m[k] = ValueOf(PieceAt(t, last))
            /\ call.arg = <<>> => DOMAIN m = {}

C7_Witness ==
    /\ IsSome(ret)
    /\ call.arg = <<" ", "k", ":", ",", "k", ":">>
    /\ DOMAIN Unwrap(ret) = {<<"k">>}
    /\ Unwrap(ret)[<<"k">>] = <<>>

(***************************************************************************)
(* Input::integer_or_text applied to every selector over SelectorChars of  *)
(* at most MaxSelectorLen characters.                                      *)
(***************************************************************************)
SelectorChars == {"0", "1", "2", "5", "6", "+", "-", "a"}

InitSelector ==
    /\ MainIdle
    /\ call \in {[fn |-> "Input::integer_or_text", arg |-> x] :
                    x \in StringsUpTo(SelectorChars, MaxSelectorLen)}
    /\ ret = None

\* parse.rs:11  pub fn integer_or_text(x: &str) -> String
CallIntegerOrText ==
    /\ call.fn = "Input::integer_or_text"
    /\ ret = None
    /\ ret' = Some(integer_or_text(call.arg))
    /\ UNCHANGED <<mainVars, call>>

NextSelector == CallIntegerOrText

SpecSelector == InitSelector /\ [][NextSelector]_vars

\* The number a run of decimal digits denotes.
RECURSIVE DecimalValue(_)
DecimalValue(d) ==
    IF d = <<>> THEN 0
    ELSE 10 * DecimalValue(SubSeq(d, 1, Len(d) - 1)) + DigitValue(d[Len(d)])

\* x is written as an integer in 0..255: one or more decimal digits, which
\* one '+' may precede, denoting a number of at most 255.
DenotesU8(x) ==
    LET d == IF x # <<>> /\ x[1] = "+" THEN SubSeq(x, 2, Len(x)) ELSE x
    IN  /\ d # <<>>
        /\ \A i \in 1..Len(d) : d[i] \in Digits
        /\ DecimalValue(d) <= 255

\* C10: Input::integer_or_text returns the selector unchanged and unquoted
\* if and only if it is written as an unsigned 8-bit integer in 0..255, and
\* otherwise returns it wrapped in double quotes; '256', '-1' and labels are
\* quoted, and every unquoted result denotes an integer in 0..255.
C10_IntegerOrText ==
    IsSome(ret) =>
        LET x == call.arg
            y == Unwrap(ret)
        IN  /\ (y = x) <=> DenotesU8(x)
            /\ (y # x) => /\ Len(y) = Len(x) + 2
                          /\ y[1] = "\""
                          /\ y[Len(y)] = "\""
                          /\ SubSeq(y, 2, Len(y) - 1) = x

C10_Witness ==
    /\ IsSome(ret)
    /\ call.arg = <<"2", "5", "6">>
    /\ Unwrap(ret) = <<"\"", "2", "5", "6", "\"">>

(***************************************************************************)
(* Cli::cmd applied to every command line over small parameter sets.       *)
(***************************************************************************)
Programs == {S_osascript, <<"x">>}

BodyTexts == {<<>>, <<"h", "i">>}

OptTexts == {None, Some(<<"t">>)}

OptSelectors == {None, Some(<<"2">>), Some(<<"O", "K">>)}

OptTimeouts == {None, Some(0), Some(30), Some(255)}

Labels == {<<"O", "K">>, <<"N", "o">>}

ButtonLists == StringsUpTo(Labels, MaxButtons)

\* alert_type has a clap default value, so it is always Some; clap accepts
\* any text for it.
AlertTypes ==
    {Some(S_informational), Some(S_warning), Some(S_critical), Some(<<"x">>)}

AllCommands ==
    {Commands_Notification(text, title, subtitle, sound_name) :
        text \in BodyTexts, title \in OptTexts, subtitle \in OptTexts,
        sound_name \in OptTexts}
    \cup
    {Commands_Alert(text, message, alert_type, buttons, default_button,
                    cancel_button, giving_up_after) :
        text \in BodyTexts, message \in OptTexts, alert_type \in AlertTypes,
        buttons \in ButtonLists, default_button \in OptSelectors,
        cancel_button \in OptSelectors, giving_up_after \in OptTimeouts}
    \cup
    {Commands_Dialog(text, default_answer, hidden_answer, buttons,
                     default_button, cancel_button, title, icon,
                     giving_up_after) :
        text \in BodyTexts, default_answer \in OptTexts,
        hidden_answer \in BOOLEAN, buttons \in ButtonLists,
        default_button \in OptSelectors, cancel_button \in OptSelectors,
        title \in OptTexts, icon \in OptSelectors,
        giving_up_after \in OptTimeouts}

InitCmd ==
    /\ pc = "cmd"
    /\ args \in {Cli(p, c) : p \in Programs, c \in AllCommands}
    /\ cli_cmd = None
    /\ spawns = 0
    /\ child = NoChild
    /\ cmd = [stage |-> "none", res |-> Err(<<>>)]
    /\ parsed = FALSE
    /\ result = None
    /\ printed = <<>>
    /\ exit_code = None
    /\ call = NoCall
    /\ ret = None

NextCmd == MainCmd

SpecCmd == InitCmd /\ [][NextCmd]_vars

\* The fragment of an optional parameter: nothing when it is absent, its
\* key and its rendered value when it is present.
Fragment(key, rendered) ==
    IF IsSome(rendered) THEN <<key, Unwrap(rendered)>> ELSE <<>>

Quote(x) == <<"\"">> \o x \o <<"\"">>

OptQuote(o) == IF IsSome(o) THEN Some(Quote(Unwrap(o))) ELSE None

OptSelector(o) == IF IsSome(o) THEN Some(integer_or_text(Unwrap(o))) ELSE None

\* The plain decimal form of a number below 1000: its hundreds, tens and
\* units digits without leading zeros.
Decimal(n) ==
    IF n < 10 THEN <<DigitChar(n)>>
    ELSE IF n < 100 THEN <<DigitChar(n \div 10), DigitChar(n % 10)>>
    ELSE <<DigitChar(n \div 100), DigitChar((n \div 10) % 10),
           DigitChar(n % 10)>>

OptDecimal(o) == IF IsSome(o) THEN Some(Decimal(Unwrap(o))) ELSE None

OptButtons(b) == IF b = <<>> THEN None ELSE Some(apple_script_list(b))

\* The words of the statement, in the documented order of each variant.
StatementWords(c) ==
    CASE c.tag = "Notification" ->
           <<S_display_notification, Quote(c.text)>>
             \o Fragment(S_with_title, OptQuote(c.title))
             \o Fragment(S_subtitle, OptQuote(c.subtitle))
             \o Fragment(S_sound_name, OptQuote(c.sound_name))
      [] c.tag = "Alert" ->
           <<S_display_alert, Quote(c.text)>>
             \o Fragment(S_message, OptQuote(c.message))
             \o Fragment(S_as, c.alert_type)
             \o Fragment(S_buttons, OptButtons(c.buttons))
             \o Fragment(S_default_button, OptSelector(c.default_button))
             \o Fragment(S_cancel_button, OptSelector(c.cancel_button))
             \o Fragment(S_giving_up_after, OptDecimal(c.giving_up_after))
      [] c.tag = "Dialog" ->
           <<S_display_dialog, Quote(c.text)>>
             \o Fragment(S_default_answer, OptQuote(c.default_answer))
             \o (IF c.hidden_answer THEN <<S_hidden_answer>> ELSE <<>>)
             \o Fragment(S_buttons, OptButtons(c.buttons))
             \o Fragment(S_default_button, OptSelector(c.default_button))
             \o Fragment(S_cancel_button, OptSelector(c.cancel_button))
             \o Fragment(S_with_title, OptQuote(c.title))
             \o Fragment(S_with_icon, OptSelector(c.icon))
             \o Fragment(S_giving_up_after, OptDecimal(c.giving_up_after))

\* The words joined by single spaces.
RECURSIVE JoinSpace(_)
JoinSpace(ws) ==
    IF Len(ws) = 1 THEN ws[1]
    ELSE ws[1] \o <<" ">> \o JoinSpace(Tail(ws))

\* C9: for every variant and every combination of parameters Cli::cmd yields
\* exactly three elements: the program name, '-e', and the statement, which
\* is the single-space join of the verb, the double-quoted body (also when
\* empty) and one fragment per present optional parameter in the variant's
\* fixed order; an absent parameter, a false hidden_answer and an empty
\* button list contribute nothing, and the timeout is in plain decimal.
C9_ArgumentVector ==
    IsSome(cli_cmd) =>
        LET v == Unwrap(cli_cmd)
        IN  /\ Len(v) = 3
            /\ v[1] = args.osascript
            /\ v[2] = <<"-", "e">>
            /\ v[3] = JoinSpace(StatementWords(args.command))

C9_Witness ==
    /\ IsSome(cli_cmd)
    /\ args.command.tag = "Dialog"
    /\ args.command.text = <<>>
    /\ args.command.hidden_answer = FALSE
    /\ args.command.buttons = <<>>
    /\ args.command.default_answer = None
    /\ args.command.default_button = Some(<<"2">>)
    /\ args.command.cancel_button = None
    /\ args.command.title = None
    /\ args.command.icon = None
    /\ args.command.giving_up_after = Some(255)
    /\ Unwrap(cli_cmd)[3] =
         S_display_dialog \o <<" ", "\"", "\"", " ">> \o S_default_button
           \o <<" ", "2", " ">> \o S_giving_up_after \o <<" ", "2", "5", "5">>

(***************************************************************************)
(* Commands::parse_stdout applied, for Dialog and Alert, to the texts the  *)
(* scripting host prints: up to MaxFields comma-separated fields, with or  *)
(* without the final newline.                                              *)
(***************************************************************************)
FieldKeys == {S_gave_up, S_button_returned, S_text_returned}

FieldValues ==
    {S_true, <<"T", "R", "U", "E">>, <<"1">>, <<" ">> \o S_true}

Fields ==
    {k \o <<":">> \o v : k \in FieldKeys, v \in FieldValues} \cup {<<"x">>}

FieldSeparators == {<<",">>, <<",", " ">>}

RECURSIVE FieldTexts(_)
FieldTexts(n) ==
    IF n = 0 THEN {<<>>}
    ELSE IF n = 1 THEN Fields
    ELSE {t \o sep \o f : t \in FieldTexts(n - 1), sep \in FieldSeparators,
                          f \in Fields}

HostOutputs ==
    LET texts == UNION {FieldTexts(n) : n \in 0..MaxFields}
    IN  texts \cup {t \o <<"\n">> : t \in texts}

ResultCommands ==
    {Commands_Alert(<<"h", "i">>, None, Some(S_informational), <<>>, None,
                    None, None),
     Commands_Dialog(<<"h", "i">>, None, FALSE, <<>>, None, None, None, None,
                     None)}

InitParse ==
    /\ MainIdle
    /\ call \in {[fn |-> "Commands::parse_stdout",
                  arg |-> [command |-> c, output |-> o]] :
                    c \in ResultCommands, o \in HostOutputs}
    /\ ret = None

\* cli.rs:295  fn parse_stdout(&self, output: Vec<u8>) -> Result<Data>
CallParseStdout ==
    /\ call.fn = "Commands::parse_stdout"
    /\ ret = None
    /\ ret' = Some(parse_stdout(call.arg.command, call.arg.output))
    /\ UNCHANGED <<mainVars, call>>

NextParse == CallParseStdout

SpecParse == InitParse /\ [][NextParse]_vars

\* C8: in every Dialog or Alert success payload gave_up is true if and only
\* if the payload's record has key 'gave up' with value exactly 'true';
\* button is the record's value for 'button returned', null when the key is
\* absent; for Dialog text is the record's value for 'text returned', null
\* when absent; an Alert payload has no text field.
C8_ExtractedFields ==
    (IsSome(ret) /\ Unwrap(ret).ok) =>
        LET d == Unwrap(ret).val
            r == d.record
        IN  /\ d.tag = call.arg.command.tag
            /\ d.gave_up <=> (S_gave_up \in DOMAIN r /\ r[S_gave_up] = S_true)
            /\ d.button = IF S_button_returned \in DOMAIN r
                          THEN Some(r[S_button_returned]) ELSE None
            /\ d.tag = "Dialog" =>
                 d.text = IF S_text_returned \in DOMAIN r
                          THEN Some(r[S_text_returned]) ELSE None
            /\ d.tag = "Alert" => "text" \notin DOMAIN d

C8_Witness ==
    /\ IsSome(ret)
    /\ Unwrap(ret).ok
    /\ call.arg.command.tag = "Dialog"
    /\ call.arg.output =
         S_button_returned \o <<":", "1", ",", " ">> \o S_gave_up
           \o <<":", " ">> \o S_true \o <<"\n">>
    /\ Unwrap(ret).val.button = Some(<<"1">>)
    /\ Unwrap(ret).val.text = None
    /\ Unwrap(ret).val.gave_up = FALSE

(***************************************************************************)
(* Input::apple_script_list applied to every list of at most MaxListLen    *)
(* labels, among them labels holding a double quote, a comma or a brace.   *)
(***************************************************************************)
ListLabels ==
    {<<>>, <<"a">>, <<"b">>, <<"\"">>, <<",">>, <<"}">>, <<"a", "\"">>,
     <<"{", "a">>}

InitList ==
    /\ MainIdle
    /\ call \in {[fn |-> "Input::apple_script_list", arg |-> v] :
                    v \in StringsUpTo(ListLabels, MaxListLen)}
    /\ ret = None

\* parse.rs:19  pub fn apple_script_list<S: Into<String>>(v: Vec<S>) -> String
CallAppleScriptList ==
    /\ call.fn = "Input::apple_script_list"
    /\ ret = None
    /\ ret' = Some(apple_script_list(call.arg))
    /\ UNCHANGED <<mainVars, call>>

NextList == CallAppleScriptList

SpecList == InitList /\ [][NextList]_vars

\* Where the i-th quoted label starts in the literal: after the opening
\* brace and, for each earlier label, its characters, its two quotes and
\* the comma that follows it.
RECURSIVE ElementStart(_, _)
ElementStart(v, i) ==
    IF i = 1 THEN 2
    ELSE ElementStart(v, i - 1) + Len(v[i - 1]) + 3

\* C11: Input::apple_script_list returns '{}' for the empty list, and
\* otherwise '{', the labels in the caller's order, each between double
\* quotes with its characters unmodified (also when it holds a double
\* quote, a comma or a brace), joined by ',', duplicates kept, then '}'.
C11_AppleScriptList ==
    IsSome(ret) =>
        LET v == call.arg
            y == Unwrap(ret)
            n == Len(v)
        IN  /\ v = <<>> => y = <<"{", "}">>
            /\ v # <<>> =>
                 /\ Len(y) = ElementStart(v, n) + Len(v[n]) + 2
                 /\ y[1] = "{"
                 /\ y[Len(y)] = "}"
                 /\ \A i \in 1..n :
                      LET a == ElementStart(v, i)
                          b == a + Len(v[i]) + 1
                      IN  /\ y[a] = "\""
                          /\ SubSeq(y, a + 1, b - 1) = v[i]
                          /\ y[b] = "\""
                          /\ i < n => y[b + 1] = ","

C11_Witness ==
    /\ IsSome(ret)
    /\ call.arg = <<<<"a", "\"">>, <<",">>, <<"a", "\"">>>>
    /\ Unwrap(ret) =
         <<"{", "\"", "a", "\"", "\"", ",", "\"", ",", "\"", ",", "\"", "a",
           "\"", "\"", "}">>

(***************************************************************************)
(* The alert style in the statement Cli::cmd builds.                       *)
(***************************************************************************)
AlertStyles == {S_informational, S_warning, S_critical}

\* The statement of an Alert up to the value of its 'as' fragment: the verb,
\* the quoted body, the message fragment when there is one, and the key.
AlertStatementUpToStyle(c) ==
    S_display_alert \o <<" ">> \o Quote(c.text)
      \o (IF IsSome(c.message)
          THEN <<" ">> \o S_message \o <<" ">> \o Quote(Unwrap(c.message))
          ELSE <<>>)
      \o <<" ">> \o S_as \o <<" ">>

\* C12: for every Alert invocation the built statement carries an 'as'
\* fragment whose value is one of informational, warning and critical.
C12_AlertStyle ==
    (IsSome(cli_cmd) /\ args.command.tag = "Alert") =>
        LET st == Unwrap(cli_cmd)[3]
            head == AlertStatementUpToStyle(args.command)
        IN  \E w \in AlertStyles :
              LET e == Len(head) + Len(w)
              IN  /\ Len(st) >= e
                  /\ SubSeq(st, 1, e) = head \o w
                  /\ Len(st) = e \/ st[e + 1] = " "

====
